---- MODULE Spec2Model ----
(***************************************************************************)
(* A model of src/context.js: the Context class (create, withCancel,       *)
(* withTimeout, delay), the promises it builds its cancellation signals    *)
(* from, and the event loop that runs it: a FIFO queue of promise jobs     *)
(* (microtasks) that is drained before any timer callback runs, and        *)
(* timers that fire in the order of their deadlines.                       *)
(*                                                                         *)
(* Objects are numbered in creation order: contexts[c] is the c-th Context *)
(* (1 is the exported root), promises[s] the s-th `cancelled` promise      *)
(* (1 is the root's, never resolved), delays[d] the d-th call of delay.    *)
(* Causes are non-thenable JavaScript values.                              *)
(*                                                                         *)
(* Callers may call the API at any point between two jobs.  Computation    *)
(* takes no time: the clock moves only when no job is queued and no timer  *)
(* is due, so a timer fires at its deadline; timers due at the same time   *)
(* fire in any order.                                                      *)
(*                                                                         *)
(* get walks the WeakMap parents over a map the callers keep (storage);    *)
(* StorageSpec is the program with callers that set entries and call get.  *)
(***************************************************************************)
EXTENDS Integers, Sequences, FiniteSets, TLC

\* ------------------------------------------------------------------ bounds
\* The contexts callers derive and the delays they start, together.
MaxObjects == 2
\* The last millisecond of the clock; no timer is set for later.
MaxTime == 2

\* ------------------------------------------------------------------ values
Undefined == "undefined"
Null == "null"
timeoutError == "context expired"
cancelError == "context cancelled"

\* What callers pass to cancel: nothing, a falsy value, an Error of their own.
CancelArgs == {Undefined, Null, "please stop"}
Durations == 0 .. MaxTime

\* JavaScript's truthiness of a cause, and `error || fallback`.
Falsy(v) == v \in {Undefined, Null}
OrElse(v, fallback) == IF Falsy(v) THEN fallback ELSE v

VARIABLES
    contexts,   \* contexts[c]: the promise the c-th Context holds, and what made it
    parents,    \* the WeakMap parents: parents[c] is c's parent, 0 for none
    promises,   \* promises[s]: [state, value, reactions] of a cancelled promise
    delays,     \* delays[d]: the timer and the promise of the d-th delay call
    jobs,       \* the promise job queue (microtasks), oldest first
    now,        \* the clock, in milliseconds
    hist,       \* history, per promise: what made it, what resolved it, and the
                \* argument of the first call of its cancel function that found it pending
    called,     \* the call of a cancel function this step made, if it made one
    storage,    \* a WeakMap of the callers, keyed by Context: context |-> value
    got         \* the call of get this step made, if it made one, and what it returned

vars == <<contexts, parents, promises, delays, jobs, now, hist, called, storage, got>>

State ==
    [contexts |-> contexts, parents |-> parents, promises |-> promises,
     delays |-> delays, jobs |-> jobs, hist |-> hist, storage |-> storage]

Commit(st) ==
    /\ contexts' = st.contexts
    /\ parents' = st.parents
    /\ promises' = st.promises
    /\ delays' = st.delays
    /\ jobs' = st.jobs
    /\ hist' = st.hist
    /\ storage' = st.storage

\* ---------------------------------------------------------------- promises
\* new Promise(...) whose executor settles nothing yet.
NewPromise == [state |-> "pending", value |-> Undefined, reactions |-> <<>>]

Job(reaction, v) == [type |-> reaction.type, target |-> reaction.target, value |-> v]

RECURSIVE JobsOf(_, _)
JobsOf(reactions, v) ==
    IF reactions = <<>> THEN <<>>
    ELSE <<Job(Head(reactions), v)>> \o JobsOf(Tail(reactions), v)

\* A then that registers the reaction only on a pending promise.
ThenIfPending(st, s, reaction) ==
    IF st.promises[s].state = "pending"
    THEN [st EXCEPT !.promises[s].reactions = Append(@, reaction)]
    ELSE st

\* promise.then(onFulfilled, noop) on promises[s]: the reaction waits while the
\* promise is pending, and is queued as a job at once when it is fulfilled.
Then(st, s, reaction) ==
    IF st.promises[s].state = "pending"
    THEN [st EXCEPT !.promises[s].reactions = Append(@, reaction)]
    ELSE [st EXCEPT !.jobs = Append(@, Job(reaction, st.promises[s].value))]

\* A resolve function that forgets that its promise is already resolved.
ResolveAgain(st, s, v, by) ==
    [st EXCEPT !.promises[s] = [state |-> "fulfilled", value |-> v, reactions |-> <<>>],
               !.jobs = @ \o JobsOf(st.promises[s].reactions, v),
               !.hist[s].by = by]

\* A resolve function that runs the forwarding reactions itself, before it
\* returns, instead of leaving them to the job queue alone.
ResolveSync(st, s, v, by) ==
    IF st.promises[s].state # "pending" THEN st
    ELSE LET reactions == st.promises[s].reactions
             targets == {reactions[i].target :
                            i \in {j \in 1 .. Len(reactions) : reactions[j].type = "forward"}}
         IN  [st EXCEPT !.promises =
                            [t \in DOMAIN st.promises |->
                                IF t = s
                                THEN [state |-> "fulfilled", value |-> v, reactions |-> <<>>]
                                ELSE IF t \in targets /\ st.promises[t].state = "pending"
                                THEN [st.promises[t] EXCEPT !.state = "fulfilled",
                                                            !.value = OrElse(v, cancelError)]
                                ELSE st.promises[t]],
                        !.jobs = @ \o JobsOf(reactions, v),
                        !.hist[s].by = by]

\* The resolve function of promises[s] (the `cancel` of withCancel), called with
\* v by `by`: the first call fulfils the promise and queues its reactions, in the
\* order they were registered; every later call does nothing.
Resolve(st, s, v, by) ==
    IF st.promises[s].state # "pending" THEN st
    ELSE [st EXCEPT !.promises[s] = [state |-> "fulfilled", value |-> v, reactions |-> <<>>],
                    !.jobs = @ \o JobsOf(st.promises[s].reactions, v),
                    !.hist[s].by = by]

\* ------------------------------------------------------------------ Context
NewHist(kind, from, timer) ==
    [kind |-> kind, from |-> from, timer |-> timer, by |-> "none", first |-> "none"]

\* A create that leaves out parents.set(context, this).
createOrphan(st, this) ==
    [st EXCEPT !.contexts = Append(@, [cancelled |-> st.contexts[this].cancelled,
                                          made |-> "create"]),
               !.parents = Append(@, 0)]

\* A create that gives the new Context a promise of its own, resolved by
\* forwarding as withCancel does.
createScoped(st, this) ==
    LET s == Len(st.promises) + 1
        from == st.contexts[this].cancelled
        st1 == [st EXCEPT !.promises = Append(@, NewPromise),
                          !.hist = Append(@, NewHist("create", from, 0)),
                          !.contexts = Append(@, [cancelled |-> s, made |-> "create"]),
                          !.parents = Append(@, this)]
    IN  Then(st1, from, [type |-> "forward", target |-> s])

\* create(): a new Context on the same cancelled promise.
create(st, this) ==
    [st EXCEPT !.contexts = Append(@, [cancelled |-> st.contexts[this].cancelled,
                                          made |-> "create"]),
               !.parents = Append(@, this)]

\* A withCancel that also forwards the child's cancellation to the parent.
withCancelBothWays(st, this) ==
    LET s == Len(st.promises) + 1
        from == st.contexts[this].cancelled
        st1 == [st EXCEPT !.promises = Append(@, NewPromise),
                          !.hist = Append(@, NewHist("withCancel", from, 0)),
                          !.contexts = Append(@, [cancelled |-> s, made |-> "withCancel"]),
                          !.parents = Append(@, this)]
    IN  Then(Then(st1, from, [type |-> "forward", target |-> s]),
             s, [type |-> "forward", target |-> from])

\* withCancel(): a new pending promise, a Context on it, and the parent's
\* cancellation forwarded to it.
withCancel(st, this) ==
    LET s == Len(st.promises) + 1
        from == st.contexts[this].cancelled
        st1 == [st EXCEPT !.promises = Append(@, NewPromise),
                          !.hist = Append(@, NewHist("withCancel", from, 0)),
                          !.contexts = Append(@, [cancelled |-> s, made |-> "withCancel"]),
                          !.parents = Append(@, this)]
    IN  Then(st1, from, [type |-> "forward", target |-> s])

\* A delay that never subscribes to this.cancelled.
delayUnsubscribed(st, this, ms) ==
    [st EXCEPT !.delays = Append(@,
        [ctx |-> this, cancelled |-> st.contexts[this].cancelled,
         deadline |-> now + ms, timer |-> "armed", state |-> "pending",
         reason |-> Undefined, child |-> 0])]

\* delay(ms): a timer armed for now + ms and a subscription to this.cancelled;
\* the promise returned is delays[d].state (pending, fulfilled, or rejected with
\* reason).
delay(st, this, ms) ==
    LET d == Len(st.delays) + 1
        s == st.contexts[this].cancelled
        st1 == [st EXCEPT !.delays = Append(@,
                    [ctx |-> this, cancelled |-> s,
                     deadline |-> now + ms, timer |-> "armed", state |-> "pending",
                     reason |-> Undefined, child |-> 0])]
    IN  Then(st1, s, [type |-> "delayCancel", target |-> d])

\* withTimeout(ms): withCancel, then this.delay(ms).then(() => cancel(timeoutError), noop).
withTimeout(st, this, ms) ==
    LET st1 == withCancel(st, this)
        s == Len(st1.promises)
        st2 == delay(st1, this, ms)
        d == Len(st2.delays)
    IN  [st2 EXCEPT !.delays[d].child = s,
                    !.contexts[Len(st2.contexts)].made = "withTimeout",
                    !.hist[s].kind = "withTimeout",
                    !.hist[s].timer = d]

\* ------------------------------------------------------------------ actions
NoCall == [target |-> 0, arg |-> Undefined]
NoGet == [this |-> 0, value |-> Undefined]

\* The contexts derived and the delays callers started so far (the delay that
\* withTimeout starts is part of its context).
Objects == Len(contexts) - 1 + Cardinality({d \in 1 .. Len(delays) : delays[d].child = 0})

Init ==
    /\ contexts = <<[cancelled |-> 1, made |-> "root"]>>
    /\ parents = <<0>>
    /\ promises = <<NewPromise>>
    /\ delays = <<>>
    /\ jobs = <<>>
    /\ now = 0
    /\ hist = <<NewHist("root", 0, 0)>>
    /\ called = NoCall
    /\ storage = <<>>
    /\ got = NoGet

Create(c) ==
    /\ Objects < MaxObjects
    /\ Commit(create(State, c))
    /\ called' = NoCall
    /\ got' = NoGet
    /\ UNCHANGED now

WithCancel(c) ==
    /\ Objects < MaxObjects
    /\ Commit(withCancel(State, c))
    /\ called' = NoCall
    /\ got' = NoGet
    /\ UNCHANGED now

WithTimeout(c, ms) ==
    /\ Objects < MaxObjects
    /\ now + ms <= MaxTime
    /\ Commit(withTimeout(State, c, ms))
    /\ called' = NoCall
    /\ got' = NoGet
    /\ UNCHANGED now

Delay(c, ms) ==
    /\ Objects < MaxObjects
    /\ now + ms <= MaxTime
    /\ Commit(delay(State, c, ms))
    /\ called' = NoCall
    /\ got' = NoGet
    /\ UNCHANGED now

\* A holder of the cancel function that withCancel returned calls it.
Cancel(s, arg) ==
    /\ hist[s].kind = "withCancel"
    /\ Commit(Resolve([State EXCEPT !.hist[s].first =
                          IF promises[s].state = "pending" THEN arg ELSE @],
                      s, arg, "cancel"))
    /\ called' = [target |-> s, arg |-> arg]
    /\ got' = NoGet
    /\ UNCHANGED now

\* A forwarding job that hands the parent's cause on as it is.
RunForwardVerbatim ==
    /\ jobs # <<>>
    /\ Head(jobs).type = "forward"
    /\ LET j == Head(jobs)
           st == [State EXCEPT !.jobs = Tail(jobs)]
       IN  Commit(Resolve(st, j.target, j.value, "parent"))
    /\ called' = NoCall
    /\ got' = NoGet
    /\ UNCHANGED now

\* The job (error) => cancel(error || cancelError) of withCancel.
RunForward ==
    /\ jobs # <<>>
    /\ Head(jobs).type = "forward"
    /\ LET j == Head(jobs)
           st == [State EXCEPT !.jobs = Tail(jobs)]
       IN  Commit(Resolve(st, j.target, OrElse(j.value, cancelError), "parent"))
    /\ called' = NoCall
    /\ got' = NoGet
    /\ UNCHANGED now

\* A resolve / reject that settles the promise again when it is already settled.
SettleAgain(st, d, state, reason) ==
    [st EXCEPT !.delays[d].state = state,
               !.delays[d].reason = reason]

\* resolve / reject of the promise delay returned: the first call settles it and
\* queues the reaction withTimeout put on it, if any; later calls do nothing.
Settle(st, d, state, reason) ==
    IF st.delays[d].state # "pending" THEN st
    ELSE LET st1 == [st EXCEPT !.delays[d].state = state,
                               !.delays[d].reason = reason]
             child == st.delays[d].child
         IN  IF child = 0 THEN st1
             ELSE [st1 EXCEPT !.jobs = Append(@,
                      [type |-> IF state = "fulfilled" THEN "expire" ELSE "noop",
                       target |-> child, value |-> Undefined])]

\* A cancellation handler that leaves the timer armed.
clearTimeoutForgotten(st, d) == st

clearTimeout(st, d) ==
    IF st.delays[d].timer = "armed" THEN [st EXCEPT !.delays[d].timer = "cleared"] ELSE st

\* The job (error) => { clearTimeout(handle); reject(error || timeoutError) } of delay.
RunDelayCancel ==
    /\ jobs # <<>>
    /\ Head(jobs).type = "delayCancel"
    /\ LET j == Head(jobs)
           st == [State EXCEPT !.jobs = Tail(jobs)]
       IN  Commit(Settle(clearTimeout(st, j.target), j.target, "rejected",
                         OrElse(j.value, timeoutError)))
    /\ called' = NoCall
    /\ got' = NoGet
    /\ UNCHANGED now

\* An expiry job that cancels with the wrong predefined cause.
RunExpireCancelled ==
    /\ jobs # <<>>
    /\ Head(jobs).type = "expire"
    /\ LET j == Head(jobs)
           st == [State EXCEPT !.jobs = Tail(jobs)]
       IN  Commit(Resolve(st, j.target, cancelError, "timer"))
    /\ called' = NoCall
    /\ got' = NoGet
    /\ UNCHANGED now

\* The job () => cancel(timeoutError) of withTimeout.
RunExpire ==
    /\ jobs # <<>>
    /\ Head(jobs).type = "expire"
    /\ LET j == Head(jobs)
           st == [State EXCEPT !.jobs = Tail(jobs)]
       IN  Commit(Resolve(st, j.target, timeoutError, "timer"))
    /\ called' = NoCall
    /\ got' = NoGet
    /\ UNCHANGED now

\* The job noop of withTimeout, after its delay was rejected.
RunNoop ==
    /\ jobs # <<>>
    /\ Head(jobs).type = "noop"
    /\ Commit([State EXCEPT !.jobs = Tail(jobs)])
    /\ called' = NoCall
    /\ got' = NoGet
    /\ UNCHANGED now

RunJob == RunForward \/ RunDelayCancel \/ RunExpire \/ RunNoop

\* A timer may run its callback when the job queue is empty and it is due.
TimerDue(d) == delays[d].timer = "armed" /\ delays[d].deadline <= now

\* setTimeout's callback of delays[d]: resolve.
FireTimer(d) ==
    /\ jobs = <<>>
    /\ TimerDue(d)
    /\ Commit(Settle([State EXCEPT !.delays[d].timer = "fired"], d, "fulfilled", Undefined))
    /\ called' = NoCall
    /\ got' = NoGet
    /\ UNCHANGED now

\* A millisecond passes, once the event loop has nothing left to run.
Tick ==
    /\ jobs = <<>>
    /\ \A d \in 1 .. Len(delays) : ~TimerDue(d)
    /\ now < MaxTime
    /\ now' = now + 1
    /\ called' = NoCall
    /\ got' = NoGet
    /\ UNCHANGED <<contexts, parents, promises, delays, jobs, hist, storage>>

Next ==
    \/ \E c \in 1 .. Len(contexts) : Create(c)
    \/ \E c \in 1 .. Len(contexts) : WithCancel(c)
    \/ \E c \in 1 .. Len(contexts), ms \in Durations : WithTimeout(c, ms)
    \/ \E c \in 1 .. Len(contexts), ms \in Durations : Delay(c, ms)
    \/ \E s \in 1 .. Len(promises), arg \in CancelArgs : Cancel(s, arg)
    \/ RunForward
    \/ RunDelayCancel
    \/ RunExpire
    \/ RunNoop
    \/ \E d \in 1 .. Len(delays) : FireTimer(d)
    \/ Tick

Spec == Init /\ [][Next]_vars

\* The event loop runs every job that is queued: a queued job is never starved.
FairSpec == Spec /\ WF_vars(RunJob)

\* ----------------------------------------------------------------- storage
\* The values callers keep in the map.
Values == {"Hello, World!", "Goodbye"}

\* The entries a behaviour puts in the map.
MaxEntries == 2

\* A get that looks at this context's own entry only.
getOwn(st, token, map) ==
    IF token \in DOMAIN map THEN map[token] ELSE Undefined

\* get(map), from `token` on: the value of map for the first of token, its
\* parent, the parent of that, ... that map has; undefined when parents has no
\* parent for the last of them.
RECURSIVE get(_, _, _)
get(st, token, map) ==
    IF token \in DOMAIN map THEN map[token]
    ELSE LET parent == st.parents[token]
         IN  IF parent = 0 THEN Undefined ELSE get(st, parent, map)

\* A caller's tokens.set(context, value).
SetEntry(c, v) ==
    /\ Cardinality(DOMAIN storage \ {c}) < MaxEntries
    /\ Commit([State EXCEPT !.storage = (c :> v) @@ storage])
    /\ called' = NoCall
    /\ got' = NoGet
    /\ UNCHANGED now

\* A get that stores what it found under the context it was called on.
GetMemoising(c) ==
    LET v == get(State, c, storage) IN
    /\ got' = [this |-> c, value |-> v]
    /\ called' = NoCall
    /\ storage' = IF v = Undefined THEN storage ELSE (c :> v) @@ storage
    /\ UNCHANGED <<contexts, parents, promises, delays, jobs, now, hist>>

\* A caller's context.get(tokens).
Get(c) ==
    /\ got' = [this |-> c, value |-> get(State, c, storage)]
    /\ called' = NoCall
    /\ UNCHANGED <<contexts, parents, promises, delays, jobs, now, hist, storage>>

\* Callers that derive contexts, keep values for them in a map, look them up
\* and cancel with cancel(), all within one millisecond.
StorageNext ==
    \/ \E c \in 1 .. Len(contexts) : Create(c)
    \/ \E c \in 1 .. Len(contexts) : WithCancel(c)
    \/ \E c \in 1 .. Len(contexts), ms \in Durations : WithTimeout(c, ms)
    \/ \E s \in 1 .. Len(promises) : Cancel(s, Undefined)
    \/ RunForward
    \/ RunDelayCancel
    \/ RunNoop
    \/ \E c \in 1 .. Len(contexts), v \in Values : SetEntry(c, v)
    \/ \E c \in 1 .. Len(contexts) : Get(c)

StorageSpec == Init /\ [][StorageNext]_vars

\* ------------------------------------------------------------------ claims
Signals == 1 .. Len(promises)
Resolved(s) == promises[s].state = "fulfilled"

\* C1: once a context's signal is resolved it stays resolved with the same
\* cause, whatever is attempted on it afterwards (a cancel call with any
\* argument, the parent's forwarding, the timer's expiry): a signal goes from
\* pending to resolved at most once.
C1_ResolvedOnce ==
    [][\A s \in Signals :
          Resolved(s) => /\ promises'[s].state = "fulfilled"
                         /\ promises'[s].value = promises[s].value
                         /\ hist'[s].by = hist[s].by]_vars

\* C1's case: the parent's forwarding resolved the signal, and cancel has just
\* been called on it with another cause.
C1_Witness ==
    \E s \in Signals :
        /\ called.target = s
        /\ hist[s].by = "parent"
        /\ called.arg # promises[s].value

\* C2: a signal its own cancel function resolved carries the cause of the first
\* call, and a call of cancel on a signal that is already resolved changes
\* nothing: not the signal, not another signal, no delay, no queued job.
C2_FirstCancelWins ==
    [][/\ \A s \in Signals :
            hist'[s].by = "cancel" => promises'[s].value = hist'[s].first
       /\ \A s \in Signals :
            (called'.target = s /\ Resolved(s)) =>
                UNCHANGED <<contexts, parents, promises, delays, jobs, now, hist, storage>>]_vars

\* C2's case: cancel resolved the signal, and has just been called again with
\* a cause other than the first.
C2_Witness ==
    \E s \in Signals :
        /\ called.target = s
        /\ hist[s].by = "cancel"
        /\ called.arg # hist[s].first
        /\ promises[s].value = hist[s].first

\* What the forwarding of withCancel hands to the child for the parent's cause v.
Forwarded(v) == IF v \in {Undefined, Null} THEN cancelError ELSE v

\* The most promises a behaviour makes: the root's and one per derived context.
MaxSignals == MaxObjects + 1

C5_ForwardedCause ==
    \A s \in Signals :
        hist[s].by = "parent" =>
            /\ Resolved(hist[s].from)
            /\ promises[s].value = Forwarded(promises[hist[s].from].value)

\* C5's case: root -> A -> B by withCancel, only A's cancel called, with no
\* cause, and B resolved by A's forwarding.
C5_Witness ==
    \E a, b \in Signals :
        /\ hist[a].kind = "withCancel" /\ hist[a].from = 1
        /\ hist[b].kind = "withCancel" /\ hist[b].from = a
        /\ hist[a].by = "cancel" /\ hist[a].first = Undefined
        /\ hist[b].by = "parent" /\ hist[b].first = "none"
        /\ promises[b].value = cancelError

\* C6: a signal becomes resolved only in a step that is a call of its own cancel
\* function, the job of its own timer's expiry, or the forwarding job of the
\* signal it was derived from, itself resolved; no step resolves two signals,
\* so cancelling a context resolves neither an ancestor nor a sibling.
C6_OneDirection ==
    [][\A s \in Signals :
          (~Resolved(s) /\ promises'[s].state = "fulfilled") =>
            /\ \/ called'.target = s
               \/ /\ jobs # <<>>
                  /\ Head(jobs).type = "expire"
                  /\ Head(jobs).target = s
                  /\ hist[s].kind = "withTimeout"
                  /\ delays[hist[s].timer].timer = "fired"
               \/ /\ jobs # <<>>
                  /\ Head(jobs).type = "forward"
                  /\ Head(jobs).target = s
                  /\ hist[s].from # 0
                  /\ Resolved(hist[s].from)
            /\ \A t \in Signals \ {s} : promises'[t] = promises[t]]_vars

\* C6's case: a context derived from a cancellable parent was cancelled, every
\* job has run, and the parent is pending.
C6_Witness ==
    \E p, s \in Signals :
        /\ p # 1
        /\ hist[s].from = p
        /\ Resolved(s)
        /\ ~Resolved(p)
        /\ jobs = <<>>

\* The signals withTimeout made.
Timeouts == {s \in Signals : hist[s].kind = "withTimeout"}

\* C7: a withTimeout context is resolved either by its timer, which then fired
\* while its delay was pending, with the expired cause, or by its parent, with
\* the forwarded cause, and then the timer has not fired and is cleared once
\* the job queue is empty; a timer that fired did so before any cancellation
\* was delivered to its delay.
C7_TimerOrParent ==
    \A s \in Timeouts :
        LET d == hist[s].timer IN
        /\ hist[s].by \in {"none", "timer", "parent"}
        /\ Resolved(s) <=> hist[s].by # "none"
        /\ hist[s].by = "timer" =>
              /\ promises[s].value = timeoutError
              /\ delays[d].timer = "fired"
              /\ delays[d].state = "fulfilled"
        /\ hist[s].by = "parent" =>
              /\ promises[s].value = Forwarded(promises[hist[s].from].value)
              /\ delays[d].timer # "fired"
              /\ jobs = <<>> => delays[d].timer = "cleared" /\ delays[d].state = "rejected"
        /\ delays[d].timer = "fired" => delays[d].state = "fulfilled"

\* C7's case: the parent cancelled first, the timer was cleared, and the clock
\* has reached the timer's deadline with nothing left to run.
C7_Witness ==
    \E s \in Timeouts :
        /\ hist[s].by = "parent"
        /\ delays[hist[s].timer].timer = "cleared"
        /\ delays[hist[s].timer].deadline > 0
        /\ now >= delays[hist[s].timer].deadline
        /\ jobs = <<>>

AllDelays == 1 .. Len(delays)

\* What a delay rejects with when its context's cause is v.
Rejection(v) == IF v \in {Undefined, Null} THEN timeoutError ELSE v

DelayOutcome(d) ==
    /\ delays[d].state = "pending" => delays[d].timer = "armed"
    /\ delays[d].state = "fulfilled" =>
          /\ delays[d].timer = "fired"
          /\ delays[d].reason = Undefined
    /\ delays[d].state = "rejected" =>
          /\ delays[d].timer = "cleared"
          /\ Resolved(delays[d].cancelled)
          /\ delays[d].reason = Rejection(promises[delays[d].cancelled].value)

\* C8: a delay is pending while its timer is armed; it is fulfilled, with no
\* value, exactly when its timer fired; it is rejected exactly when its context's
\* cancellation was delivered first, with the context's cause, or the expired
\* cause when that cause is empty (falsy); and an outcome once reached never
\* changes, whatever is delivered afterwards.
C8_DelayOutcome ==
    /\ [](\A d \in AllDelays : DelayOutcome(d))
    /\ [][\A d \in AllDelays :
            delays[d].state # "pending" =>
                /\ delays'[d].state = delays[d].state
                /\ delays'[d].reason = delays[d].reason]_vars

\* C8's case: the timer fired, the context was cancelled afterwards, the
\* cancellation was delivered, and the delay is still fulfilled.
C8_Witness ==
    \E d \in AllDelays :
        /\ delays[d].state = "fulfilled"
        /\ delays[d].child = 0
        /\ Resolved(delays[d].cancelled)
        /\ jobs = <<>>

\* The delays callers started on the context of signal s.
DelaysOn(s) == {x \in AllDelays : delays[x].cancelled = s /\ delays[x].child = 0}

\* C9: for a context made by withTimeout whose timer t is due at D, a delay on
\* it that is due after D is never fulfilled, and its timer never fires; when the
\* context expired (no parent cancelled it), the delay is rejected with the
\* expired cause; a delay due before D is never rejected unless the parent
\* cancelled the context, and is fulfilled once its time has passed; and the
\* clock never moves on from D or later before the context is resolved and every
\* delay on it is settled: the longer delay is rejected at D, not at its own time.
C9_ExpiryBeatsLongerDelay ==
    /\ [](\A s \in Timeouts : \A x \in DelaysOn(s) :
            LET t == hist[s].timer IN
            /\ delays[x].deadline > delays[t].deadline =>
                  /\ delays[x].state # "fulfilled"
                  /\ delays[x].timer # "fired"
                  /\ (delays[x].state = "rejected" /\ hist[s].by = "timer") =>
                        delays[x].reason = timeoutError
            /\ (delays[x].deadline < delays[t].deadline /\ hist[s].by # "parent") =>
                  /\ delays[x].state # "rejected"
                  /\ now > delays[x].deadline => delays[x].state = "fulfilled")
    /\ [][now' # now =>
            \A s \in Timeouts :
                now >= delays[hist[s].timer].deadline =>
                    /\ Resolved(s)
                    /\ \A x \in DelaysOn(s) : delays[x].state # "pending"]_vars

\* C9's case: withTimeout(d), d > 0, expired at d, and a delay on its context
\* due later is rejected with the expired cause while the clock still reads d.
C9_Witness ==
    \E s \in Timeouts : \E x \in DelaysOn(s) :
        LET t == hist[s].timer IN
        /\ hist[s].by = "timer"
        /\ delays[t].deadline > 0
        /\ delays[x].deadline > delays[t].deadline
        /\ delays[x].state = "rejected"
        /\ delays[x].reason = timeoutError
        /\ now = delays[t].deadline

\* The job that will clear the timer of delay d is queued.
ClearingQueued(d) ==
    \E i \in 1 .. Len(jobs) : jobs[i].type = "delayCancel" /\ jobs[i].target = d

\* C10: an armed timer belongs to a delay whose outcome is open, and when the
\* delay's context is already cancelled the job that clears the timer is queued
\* ahead of every timer callback; a delay rejected by cancellation has its timer
\* cleared; a withTimeout context resolved by its parent has its timer cleared
\* once the job queue is empty; and a cleared timer stays cleared: its callback
\* never runs.
C10_NoTimerOutlives ==
    /\ [](\A d \in AllDelays :
            /\ delays[d].timer = "armed" =>
                  /\ delays[d].state = "pending"
                  /\ Resolved(delays[d].cancelled) => ClearingQueued(d)
            /\ delays[d].state = "rejected" => delays[d].timer = "cleared"
            /\ delays[d].timer = "cleared" => delays[d].state = "rejected"
            /\ (delays[d].child # 0 /\ hist[delays[d].child].by = "parent" /\ jobs = <<>>) =>
                  delays[d].timer = "cleared")
    /\ [][\A d \in AllDelays :
            delays[d].timer = "cleared" =>
                delays'[d].timer = "cleared" /\ delays'[d].state = "rejected"]_vars

\* C10's case: a delay rejected by a cancel call, its timer cleared, and the
\* clock past the timer's deadline with nothing fired.
C10_Witness ==
    \E d \in AllDelays :
        /\ delays[d].child = 0
        /\ delays[d].state = "rejected"
        /\ delays[d].timer = "cleared"
        /\ hist[delays[d].cancelled].by = "cancel"
        /\ now > delays[d].deadline
        /\ jobs = <<>>

\* The most delays a behaviour starts, those of withTimeout included.
MaxDelays == MaxObjects

\* The signal s is x, or the signal of a context derived from x's, directly or
\* through other contexts.
RECURSIVE Under(_, _)
Under(s, x) ==
    IF s = x THEN TRUE
    ELSE IF hist[s].from = 0 THEN FALSE
    ELSE Under(hist[s].from, x)

\* Cancel was called on a withCancel context that the context of delay d is, or
\* is derived from: the signal of that context is resolved from the call on.
CancelledAbove(d) ==
    \E x \in Signals :
        /\ hist[x].kind = "withCancel"
        /\ Resolved(x)
        /\ Under(delays[d].cancelled, x)

Created == {c \in 1 .. Len(contexts) : contexts[c].made = "create"}

\* C12: a context made by create holds the cancelled promise of the context it
\* was made from: it is pending exactly when that one is, and resolved with the
\* same cause, an empty cause included; and the step of create changes no
\* promise, starts no delay, queues no job and makes no cancel function.
C12_CreateShares ==
    /\ [](\A c \in Created :
            LET s == contexts[c].cancelled
                p == contexts[parents[c]].cancelled
            IN  /\ s = p
                /\ promises[s].state = promises[p].state
                /\ promises[s].value = promises[p].value)
    /\ [][(/\ Len(contexts') = Len(contexts) + 1
           /\ contexts'[Len(contexts')].made = "create") =>
             /\ promises' = promises
             /\ delays' = delays
             /\ jobs' = jobs
             /\ hist' = hist]_vars

\* C12's case: a context made by create from a withCancel context that cancel()
\* resolved with no cause: its signal is resolved with undefined too.
C12_Witness ==
    \E c \in Created :
        /\ contexts[parents[c]].made = "withCancel"
        /\ Resolved(contexts[c].cancelled)
        /\ promises[contexts[c].cancelled].value = Undefined
        /\ hist[contexts[parents[c]].cancelled].by = "cancel"
        /\ jobs = <<>>

\* The context c and the contexts it was derived from, up to the root.
RECURSIVE Chain(_)
Chain(c) == IF c = 0 THEN {} ELSE {c} \cup Chain(parents[c])

\* The contexts on c's chain that have an entry in the map.
Holders(c) == Chain(c) \cap DOMAIN storage

\* C13: c.get(map) returns the map's value for the context on c's chain that
\* has an entry and is nearest to c (every other such context is on its own
\* chain), and undefined when no context on the chain has an entry; so what it
\* returns is never the entry of a context that is not on c's chain.
C13_NearestWins ==
    got.this # 0 =>
        LET c == got.this IN
        /\ Holders(c) = {} => got.value = Undefined
        /\ \A h \in Holders(c) :
              (\A k \in Holders(c) : k \in Chain(h)) => got.value = storage[h]

\* C13's case: two contexts on c's chain hold different values, c holds none,
\* and get returned the value of the nearer one.
C13_Witness ==
    /\ got.this # 0
    /\ got.this \notin DOMAIN storage
    /\ \E h, k \in Holders(got.this) :
          /\ h # k
          /\ k \in Chain(h)
          /\ storage[h] # storage[k]
          /\ got.value = storage[h]

\* C14: a step in which get is called changes nothing but the record of the
\* call: the map, the parent links, the contexts, every promise, every delay
\* and timer, the job queue and the clock are as they were, whether get found
\* an entry or not.
C14_GetReadsOnly ==
    [][got'.this # 0 =>
          UNCHANGED <<contexts, parents, promises, delays, jobs, now, hist, storage>>]_vars

\* C14's case: get found the value on an ancestor of the context it was called
\* on, which has no entry of its own, while one signal is resolved, a forwarding
\* job is queued and a timer is armed.
C14_Witness ==
    /\ got.this # 0
    /\ got.value # Undefined
    /\ got.this \notin DOMAIN storage
    /\ \E s \in Signals : Resolved(s)
    /\ jobs # <<>>
    /\ \E d \in AllDelays : delays[d].timer = "armed"

\* The number of times get's loop moves from a context to its parent before it
\* reaches a context that has none.
RECURSIVE Depth(_)
Depth(c) == IF parents[c] = 0 THEN 0 ELSE 1 + Depth(parents[c])

\* C15: the root has no parent; every other context has one parent, a context
\* made before it; every chain of parents ends at the root after fewer steps
\* than there are contexts, so get's loop ends on every context; and the parent
\* of a context never changes.
C15_ParentsAcyclic ==
    /\ [](/\ Len(parents) = Len(contexts)
          /\ parents[1] = 0
          /\ \A c \in 2 .. Len(contexts) :
                /\ parents[c] \in 1 .. (c - 1)
                /\ 1 \in Chain(c)
                /\ Depth(c) < Len(contexts))
    /\ [][\A c \in 1 .. Len(contexts) :
            Len(parents') >= c /\ parents'[c] = parents[c]]_vars

\* C15's case: a context two derivations below the root, by create and by
\* withCancel or withTimeout, and a get on it that walked the whole chain and
\* found no entry.
C15_Witness ==
    \E c \in 1 .. Len(contexts) :
        /\ Depth(c) = 2
        /\ {contexts[c].made, contexts[parents[c]].made} \cap {"create"} # {}
        /\ {contexts[c].made, contexts[parents[c]].made} \cap {"withCancel", "withTimeout"} # {}
        /\ got.this = c
        /\ Holders(c) = {}
        /\ got.value = Undefined

\* The context c is the root, or was made by create from such a context.
RECURSIVE RootOnly(_)
RootOnly(c) ==
    IF c = 1 THEN TRUE
    ELSE IF contexts[c].made # "create" THEN FALSE
    ELSE RootOnly(parents[c])

\* C16: the root's cancelled promise is pending in every state and holds on to
\* no cause; a delay called on the root, or on a context made from it by create
\* alone, is never rejected and its timer is never cleared: it is pending until
\* its time, and fulfilled once its time has passed.
C16_RootNeverCancelled ==
    /\ promises[1].state = "pending"
    /\ hist[1].by = "none"
    /\ \A d \in AllDelays :
          RootOnly(delays[d].ctx) =>
              /\ delays[d].cancelled = 1
              /\ delays[d].state # "rejected"
              /\ delays[d].timer # "cleared"
              /\ now > delays[d].deadline => delays[d].state = "fulfilled"

\* C16's case: a delay on a context made by create from the root, fulfilled
\* when its time came.
C16_Witness ==
    \E d \in AllDelays :
        /\ delays[d].ctx # 1
        /\ RootOnly(delays[d].ctx)
        /\ delays[d].child = 0
        /\ delays[d].deadline > 0
        /\ delays[d].state = "fulfilled"

\* The step makes a new context.
Derives == Len(contexts') = Len(contexts) + 1

\* C17: the step in which cancel is called on a signal leaves every signal
\* derived from it that was pending still pending; a pending signal is resolved
\* by its parent only in a step that runs a forwarding job from the queue, a step
\* other than the call of cancel; and a step that derives a context by create,
\* withCancel or withTimeout is one step: the clock stands, no queued job runs
\* during it, and at its end the context has its promise and its parent.
C17_NeverSynchronous ==
    [][/\ \A x \in Signals :
            called'.target = x =>
                \A t \in Signals :
                    (hist[t].from = x /\ ~Resolved(t)) => promises'[t].state = "pending"
       /\ \A t \in Signals :
            (~Resolved(t) /\ promises'[t].state = "fulfilled" /\ hist'[t].by = "parent") =>
                /\ called' = NoCall
                /\ jobs # <<>>
                /\ Head(jobs) = [type |-> "forward", target |-> t,
                                 value |-> promises[hist[t].from].value]
                /\ Resolved(hist[t].from)
       /\ Derives =>
            /\ now' = now
            /\ Len(jobs') >= Len(jobs)
            /\ SubSeq(jobs', 1, Len(jobs)) = jobs
            /\ contexts'[Len(contexts')].cancelled \in 1 .. Len(promises')
            /\ parents'[Len(contexts')] \in 1 .. Len(contexts)]_vars

\* C17's case: cancel has just been called on a pending signal that has a
\* derived signal: the derived signal is pending and its forwarding job is
\* queued.
C17_Witness ==
    \E x, t \in Signals :
        /\ called.target = x
        /\ hist[x].by = "cancel"
        /\ hist[t].from = x
        /\ ~Resolved(t)
        /\ \E i \in 1 .. Len(jobs) : jobs[i].type = "forward" /\ jobs[i].target = t

\* The signal s is resolved, or derived from a resolved signal whose forwarding
\* may not have reached it yet.
Doomed(s) == \E x \in Signals : Resolved(x) /\ Under(s, x)

\* The step starts a delay (delay, or the delay of withTimeout).
StartsDelay == Len(delays') = Len(delays) + 1

C19_NoStaleContinuations ==
    \A s \in Signals :
        ~Resolved(s) =>
            \A i \in 1 .. Len(promises[s].reactions) :
                LET r == promises[s].reactions[i] IN
                /\ r.type = "forward" => ~Resolved(r.target)
                /\ r.type = "delayCancel" => delays[r.target].state = "pending"

\* The pairs <<A, B>> of withTimeout signals, B derived from A's context.
Nested == {p \in Timeouts \X Timeouts : hist[p[2]].from = p[1]}

\* No cancel function resolved anything, and the parent of A did not resolve A.
Uncancelled(A) == hist[A].by # "parent" /\ \A s \in Signals : hist[s].by # "cancel"

Min(a, b) == IF a <= b THEN a ELSE b

\* C20: for A = P.withTimeout(a) due at DA and B = A.withTimeout(b) due at DB,
\* with no cancellation from a cancel function or from P: B is resolved only
\* with the expired cause; the clock never moves on from Min(DA, DB) or later
\* before B is resolved; when DA < DB, B's timer never fires, B is resolved by
\* A's forwarding, and the clock never moves on from DA before B's timer is
\* cleared; when DB < DA, B is resolved by its own timer and A is pending until
\* DA.
C20_NestedDeadlines ==
    /\ [](\A p \in Nested :
            LET A == p[1]
                B == p[2]
                DA == delays[hist[A].timer].deadline
                DB == delays[hist[B].timer].deadline
            IN  Uncancelled(A) =>
                  /\ Resolved(B) => promises[B].value = timeoutError
                  /\ DA < DB =>
                        /\ delays[hist[B].timer].timer # "fired"
                        /\ hist[B].by \in {"none", "parent"}
                  /\ DB < DA =>
                        /\ hist[B].by \in {"none", "timer"}
                        /\ now < DA => ~Resolved(A)
                        /\ now > DB => Resolved(B))
    /\ [][now' # now =>
            \A p \in Nested :
                LET A == p[1]
                    B == p[2]
                    DA == delays[hist[A].timer].deadline
                    DB == delays[hist[B].timer].deadline
                IN  Uncancelled(A) =>
                      /\ now >= Min(DA, DB) => Resolved(B)
                      /\ (DA < DB /\ now >= DA) =>
                            delays[hist[B].timer].timer = "cleared"]_vars

\* C20's case: A expired at DA > 0, before B's time: B is resolved by A's
\* forwarding with the expired cause and B's timer is cleared, at time DA.
C20_Witness ==
    \E p \in Nested :
        LET A == p[1]
            B == p[2]
            DA == delays[hist[A].timer].deadline
            DB == delays[hist[B].timer].deadline
        IN  /\ Uncancelled(A)
            /\ 0 < DA /\ DA < DB
            /\ hist[A].by = "timer"
            /\ hist[B].by = "parent"
            /\ promises[B].value = timeoutError
            /\ delays[hist[B].timer].timer = "cleared"
            /\ now = DA
            /\ jobs = <<>>

\* C3 (as claimed): a signal resolved by cancel() carries the cancelled cause,
\* and one resolved by cancel(customError) carries customError.
C3_CancelledByDefault ==
    \A s \in Signals :
        hist[s].by = "cancel" =>
            promises[s].value =
                IF hist[s].first = Undefined THEN cancelError ELSE hist[s].first

====
